---- MODULE Spec2Model ----
(***************************************************************************)
(* The speculative trade-precomputation cache of the background service    *)
(* worker (src/src/background/index.ts, the version with the refresh       *)
(* timer, lines 247-1057): the process-wide preloadCache and               *)
(* cacheRefreshTimer, preloadTrades, the setInterval callback installed by *)
(* setupCacheRefresh, executeBuy and executeSell.                          *)
(* Beside it the two submission channels are modelled on their own:        *)
(* JitoClient (src/src/background/jito.ts) and the confirmTransaction of   *)
(* the latest HeliusClient (index.ts 1640-1699), neither of which the      *)
(* execution path calls.                                                   *)
(*                                                                         *)
(* Every async function is a process that is suspended at its awaits; the  *)
(* code between two awaits runs atomically (one event-loop turn) and is    *)
(* one action.  Times are milliseconds.  Amounts of SOL are counted in     *)
(* hundredths, token balances in raw (smallest) units; the UI balance the  *)
(* RPC returns is the raw balance scaled by a fixed power of ten, so the   *)
(* ratio of two UI balances is the ratio of the raw ones.                  *)
(***************************************************************************)
EXTENDS Integers, Sequences, FiniteSets, TLC

\* ------------------------------------------------------------------ bounds
MaxCalls  == 2      \* message handlers / timer callbacks in flight at once
MaxTimers == 2      \* setInterval handles that can be live at once
MaxTime   == 12000  \* the clock stops here
ClockStep == 4000   \* granularity of the clock where calls interleave
FineStep  == 2500   \* granularity of the clock at the freshness boundary

\* ------------------------------------------------------- program constants
CACHE_TTL              == 10000
CACHE_FRESH_THRESHOLD  == 5000
CACHE_REFRESH_INTERVAL == 8000
DRIFT_PERCENT          == 5
TOKEN_DECIMALS         == 6

Tokens        == {"A", "B"}
BuyPresets    == {36, 56}
SellPresets   == {1, 100}
BalanceValues == {0, 95, 96, 100}
Calls         == 1..MaxCalls
TimerIds      == 1..MaxTimers

VARIABLES
  now,                \* Date.now()
  enableCache,        \* config.enableCache !== false
  helius,             \* helius && jupiter are constructed (an API key is configured)
  balance,            \* the wallet's token balance on chain, per token
  preloadCache,       \* the global preloadCache, or Null
  cacheRefreshTimer,  \* the global timer handle, 0 for null
  intervals,          \* the setInterval registry of the runtime
  calls,              \* the async calls in flight
  tracked,            \* history: the token of the latest PRELOAD_TRADES request
                      \* since the last successful execution, or "none"
  panel               \* the content panel: its status, its buttons, its
                      \* requests in flight

vars == <<now, enableCache, helius, balance, preloadCache, cacheRefreshTimer,
          intervals, calls, tracked, panel>>

Null    == [ca |-> "null"]
NoTx    == [ca |-> "none"]
EmptyMap == [k \in {} |-> NoTx]
\* getSignatureStatuses knows nothing of the signature: value[0] is null.
NoStatus == [known |-> FALSE, err |-> FALSE, confirmationStatus |-> "null"]

\* An unsigned transaction as the venue returns it: what it trades.
Artifact(ca, side, key, amount) ==
  [ca |-> ca, side |-> side, key |-> key, amount |-> amount]

\* The panel after initTradeUI: the buttons are created disabled.
InitPanel ==
  [status |-> "idle", currentCA |-> "", enabled |-> FALSE,
   preloadTimeout |-> FALSE, preloads |-> 0, executes |-> 0, refreshes |-> 0]

IdleInterval == [active |-> FALSE, ca |-> "A", nextFire |-> 0]

IdleCall ==
  [kind |-> "idle", pc |-> "idle", ca |-> "A", key |-> 0, timer |-> FALSE,
   decimals |-> 0, tokenBalance |-> 0, rawTokenBalance |-> 0,
   buyTrades |-> EmptyMap, useCache |-> FALSE, swapTx |-> NoTx,
   rebuilds |-> 0, signs |-> 0, sends |-> 0, result |-> "none", error |-> "none",
   cached |-> 0,
   startTime |-> 0,                       \* preloadTrades' startTime
   \* history of a preload: what its requests met
   balanceError |-> FALSE,                \* getTokenBalance rejected (caught: 0)
   okBuys |-> {}, okSells |-> {},         \* the presets the venue served
   sellSide |-> "none",                   \* "none", "built" or "failed" (threw)
   quotes |-> 0,                          \* quote requests an execution sent
   \* JitoClient.sendBundle / pollBundleStatus and HeliusClient.confirmTransaction
   size |-> 0,                            \* signedTransactions.length
   attempt |-> 0,                         \* the loop variable of sendBundle
   bundleId |-> "none",                   \* what sendBundle returned: "id", "null"
   thenPoll |-> FALSE,                    \* called through sendAndConfirmBundle
   timeout |-> 0,                         \* the timeout argument
   wakeAt |-> 0,                          \* when the pending setTimeout is due
   lastStatus |-> NoStatus,               \* confirmTransaction's lastStatus
   checkCount |-> 0,                      \* status queries issued
   observed |-> "none",                   \* what the latest bundle status query met
   \* history of the requests of sendBundle
   last |-> "none",                       \* the outcome of the latest attempt
   hard |-> FALSE]                        \* some attempt failed without rate limit

FreeCalls == {c \in Calls : calls[c].kind = "idle"}
InFlight  == Cardinality(Calls \ FreeCalls)
\* A new call takes the lowest free slot.
NewCall == CHOOSE c \in FreeCalls : \A d \in FreeCalls : c <= d

\* The call ends: its arguments and locals are dropped, its outcome (and how
\* it was reached) is kept until the response has been delivered.
Finished(call, result, error) ==
  [IdleCall EXCEPT !.kind = call.kind, !.pc = "done",
                   !.useCache = call.useCache,
                   !.rebuilds = call.rebuilds, !.signs = call.signs,
                   !.sends = call.sends, !.quotes = call.quotes,
                   !.result = result, !.error = error]

\* A plausible slip: the interval callback lets the error of preloadTrades go.
Rethrown(call, error) == Finished(call, "error", error)

\* preloadTrades threw.  Called by handleMessage the error is the response;
\* called by the interval callback it is caught there, logged and dropped.
Caught(call, error) ==
  IF call.timer THEN Finished(call, "swallowed", error)
  ELSE Finished(call, "error", error)

\* ------------------------------------------------------------ the cache
isCacheValid(ca) ==
  /\ preloadCache # Null
  /\ preloadCache.ca = ca
  /\ now - preloadCache.timestamp < CACHE_TTL

\* ------------------------------------------------------------ the timer
\* clearInterval(h): the runtime stops calling the callback of handle h.
clearInterval(reg, h) ==
  IF h \in TimerIds THEN [reg EXCEPT ![h].active = FALSE] ELSE reg

FreeTimerIds(reg) == {i \in TimerIds : ~reg[i].active}

\* A plausible slip: setupCacheRefresh arms the new interval without
\* clearing the previous one.
PreviousKept == intervals

\* The head of setupCacheRefresh: if (cacheRefreshTimer) clearInterval(...).
PreviousCleared == clearInterval(intervals, cacheRefreshTimer)

\* The handle setInterval returns: an id no live interval has.
NewTimerId ==
  CHOOSE i \in FreeTimerIds(PreviousCleared) :
    \A j \in FreeTimerIds(PreviousCleared) : i <= j

\* setupCacheRefresh(ca): the registry after clearing the previous timer
\* and arming the new one, whose first tick is due an interval from now.
setupCacheRefresh(ca) ==
  [PreviousCleared EXCEPT
     ![NewTimerId] = [active |-> TRUE, ca |-> ca,
                      nextFire |-> now + CACHE_REFRESH_INTERVAL]]

\* clearCacheRefresh()
clearCacheRefresh == clearInterval(intervals, cacheRefreshTimer)

\* ------------------------------------------------------------ environment
Init ==
  /\ now = 0
  /\ enableCache = TRUE
  /\ helius = TRUE
  /\ balance = [t \in Tokens |-> IF t = "A" THEN 100 ELSE 0]
  /\ preloadCache = Null
  /\ cacheRefreshTimer = 0
  /\ intervals = [i \in TimerIds |-> IdleInterval]
  /\ calls = [c \in Calls |-> IdleCall]
  /\ tracked = "none"
  /\ panel = InitPanel

AdvanceClock(step) ==
  /\ now + step <= MaxTime
  /\ now' = now + step
  /\ UNCHANGED <<enableCache, panel, helius, balance, preloadCache, cacheRefreshTimer,
                 intervals, calls, tracked>>

\* SAVE_CONFIG: saveConfig, then updateClients rebuilds or drops the clients.
SaveConfig(e, h) ==
  /\ <<e, h>> # <<enableCache, helius>>
  /\ enableCache' = e
  /\ helius' = h
  /\ UNCHANGED <<now, balance, preloadCache, cacheRefreshTimer, intervals,
                 calls, tracked, panel>>

\* The wallet's balance of a token changes on chain.
BalanceChange(t, b) ==
  /\ b # balance[t]
  /\ balance' = [balance EXCEPT ![t] = b]
  /\ UNCHANGED <<now, enableCache, panel, helius, preloadCache, cacheRefreshTimer,
                 intervals, calls, tracked>>

\* ------------------------------------------------------------ preloadTrades
\* Entry of preloadTrades(ca) up to its first await (getConfig).
EnterPreload(c, ca, byTimer) ==
  [IdleCall EXCEPT !.kind = "preload", !.pc = "cfg", !.ca = ca, !.timer = byTimer,
                   !.startTime = now]

\* PRELOAD_TRADES message: handleMessage calls preloadTrades(payload.ca).
PreloadRequest(ca, limit) ==
  /\ InFlight < limit
  /\ calls' = [calls EXCEPT ![NewCall] = EnterPreload(NewCall, ca, FALSE)]
  /\ tracked' = ca
  /\ UNCHANGED <<now, enableCache, panel, helius, balance, preloadCache,
                 cacheRefreshTimer, intervals>>

\* getConfig resolved.  Without clients the call throws (the re-initialisation
\* found no API key, or a client dropped meanwhile is dereferenced); with the
\* cache disabled it returns; otherwise the three parallel fetches are issued.
PreloadConfig(c) ==
  /\ calls[c].kind = "preload" /\ calls[c].pc = "cfg"
  /\ calls' = [calls EXCEPT ![c] =
        IF ~helius THEN Caught(@, "NotReady")
        ELSE IF ~enableCache
          THEN [Finished(@, "ok", "none") EXCEPT
                  !.cached = IF preloadCache = Null THEN 0
                             ELSE Cardinality(DOMAIN preloadCache.buyTrades)]
        ELSE [@ EXCEPT !.pc = "fetch"]]
  /\ UNCHANGED <<now, enableCache, panel, helius, balance, preloadCache,
                 cacheRefreshTimer, intervals, tracked>>

\* A plausible slip: one failed amount empties the whole map (Promise.all
\* without the per-amount catch).
preloadBuyTradesAllOrNothing(ca, amounts, ok) ==
  IF amounts \subseteq ok THEN [a \in amounts |-> Artifact(ca, "buy", a, a)]
  ELSE EmptyMap

\* A plausible slip: amounts the cache already holds for ca are not rebuilt.
preloadBuyTradesMissingOnly(ca, amounts, ok) ==
  LET held == IF preloadCache # Null /\ preloadCache.ca = ca
              THEN DOMAIN preloadCache.buyTrades ELSE {}
  IN  [a \in (amounts \cap ok) \ held |-> Artifact(ca, "buy", a, a)]

\* JupiterClient.preloadBuyTrades: one entry per amount whose quote and swap
\* transaction were both built (ok is the set of amounts the venue served).
preloadBuyTrades(ca, amounts, ok) ==
  [a \in amounts \cap ok |-> Artifact(ca, "buy", a, a)]

\* JupiterClient.preloadSellTrades: percentages whose raw amount is 0 are
\* filtered out, the others are built (ok: the ones the venue served).  The
\* code passes each amount to getSellQuote as a UI amount (raw / 10^decimals)
\* which multiplies it back; the amounts here are the raw ones, the rounding
\* of that floating-point round trip is not represented.
rawSellAmount(rawTokenBalance, percent) == (rawTokenBalance * percent) \div 100

\* A plausible slip: the percentages are not filtered.
allPercents(sellPresets, rawTokenBalance) == sellPresets

validPercents(sellPresets, rawTokenBalance) ==
  {p \in sellPresets : rawSellAmount(rawTokenBalance, p) > 0}

preloadSellTrades(ca, sellPresets, rawTokenBalance, ok) ==
  [p \in validPercents(sellPresets, rawTokenBalance) \cap ok |->
     Artifact(ca, "sell", p, rawSellAmount(rawTokenBalance, p))]

\* The end of preloadTrades: the cache is replaced and the timer re-armed in
\* the same turn; handleMessage then reads the size of the buy map.
\* The field inputs is history: what the preload that built the cache met.
Inputs(call) ==
  [balanceError |-> call.balanceError, okBuys |-> call.okBuys,
   okSells |-> call.okSells, sellSide |-> call.sellSide,
   rawTokenBalance |-> call.rawTokenBalance]

\* A plausible slip: the new maps are merged into those of the cache in place.
Merged(new, old) ==
  [k \in DOMAIN new \cup DOMAIN old |-> IF k \in DOMAIN new THEN new[k] ELSE old[k]]

NewCacheMerged(call, sellTrades) ==
  LET same == preloadCache # Null /\ preloadCache.ca = call.ca
  IN  [ca |-> call.ca,
       buyTrades |-> IF same THEN Merged(call.buyTrades, preloadCache.buyTrades)
                     ELSE call.buyTrades,
       sellTrades |-> IF same THEN Merged(sellTrades, preloadCache.sellTrades)
                      ELSE sellTrades,
       tokenDecimals |-> call.decimals, tokenBalance |-> call.tokenBalance,
       timestamp |-> now, inputs |-> Inputs(call)]

\* A plausible slip: the cache is stamped with the time the preload started.
NewCacheAtStart(call, sellTrades) ==
  [ca |-> call.ca, buyTrades |-> call.buyTrades, sellTrades |-> sellTrades,
   tokenDecimals |-> call.decimals, tokenBalance |-> call.tokenBalance,
   timestamp |-> call.startTime, inputs |-> Inputs(call)]

NewCache(call, sellTrades) ==
  [ca |-> call.ca, buyTrades |-> call.buyTrades, sellTrades |-> sellTrades,
   tokenDecimals |-> call.decimals, tokenBalance |-> call.tokenBalance,
   timestamp |-> now, inputs |-> Inputs(call)]

InstallCache(c, call, sellTrades) ==
  /\ FreeTimerIds(PreviousCleared) # {}
  /\ preloadCache' = NewCache(call, sellTrades)
  /\ intervals' = setupCacheRefresh(call.ca)
  /\ cacheRefreshTimer' = NewTimerId
  /\ calls' = [calls EXCEPT ![c] =
        [Finished(call, "ok", "none") EXCEPT
           !.cached = Cardinality(DOMAIN call.buyTrades)]]

\* Promise.all([getTokenDecimals, getTokenBalance.catch(() => 0),
\* preloadBuyTrades]) resolved.
PreloadFetch(c, served) ==
  /\ calls[c].kind = "preload" /\ calls[c].pc = "fetch"
  /\ \E d \in {TOKEN_DECIMALS},
        read \in BOOLEAN,
        ok \in served :
       LET b == IF read THEN balance[calls[c].ca] ELSE 0
           call == [calls[c] EXCEPT
                      !.decimals = d, !.tokenBalance = b,
                      !.balanceError = ~read, !.okBuys = ok,
                      !.buyTrades = preloadBuyTrades(calls[c].ca, BuyPresets, ok)]
       IN  IF b > 0
           THEN /\ calls' = [calls EXCEPT ![c] = [call EXCEPT !.pc = "sell"]]
                /\ UNCHANGED <<preloadCache, cacheRefreshTimer, intervals>>
           ELSE InstallCache(c, call, EmptyMap)
  /\ UNCHANGED <<now, enableCache, panel, helius, balance, tracked>>

\* A plausible slip: the sell section has no try/catch of its own.
SellSideThrows(c) ==
  /\ calls' = [calls EXCEPT ![c] = Caught(@, "SellFailed")]
  /\ UNCHANGED <<preloadCache, cacheRefreshTimer, intervals>>

\* getRawTokenBalance or preloadSellTrades threw: caught, the sell map stays
\* empty and the cache is installed.
SellSideFailed(c) ==
  InstallCache(c, [calls[c] EXCEPT !.sellSide = "failed"], EmptyMap)

\* getRawTokenBalance returned raw and preloadSellTrades its map.
SellSideBuilt(c, raw, ok) ==
  InstallCache(c, [calls[c] EXCEPT !.sellSide = "built", !.okSells = ok,
                                   !.rawTokenBalance = raw],
               preloadSellTrades(calls[c].ca, SellPresets, raw, ok))

\* getRawTokenBalance and preloadSellTrades resolved, or one of them threw.
PreloadSell(c, served) ==
  /\ calls[c].kind = "preload" /\ calls[c].pc = "sell"
  /\ \/ \E ok \in served : SellSideBuilt(c, balance[calls[c].ca], ok)
     \/ SellSideFailed(c)
  /\ UNCHANGED <<now, enableCache, panel, helius, balance, tracked>>

\* ------------------------------------------------------------ timer tick
\* A plausible slip: the callback refreshes the cache whatever its age.
tickRefreshesAnyAge(ca) ==
  preloadCache # Null /\ preloadCache.ca = ca

\* The callback's test: the cache exists, holds ca and is younger than CACHE_TTL.
tickRefreshes(ca) ==
  /\ preloadCache # Null /\ preloadCache.ca = ca
  /\ now - preloadCache.timestamp < CACHE_TTL

\* The callback setupCacheRefresh(ca) passed to setInterval, up to its await.
Tick(i) ==
  /\ intervals[i].active
  /\ now >= intervals[i].nextFire
  /\ LET ca == intervals[i].ca
         rearmed == [intervals EXCEPT ![i].nextFire = now + CACHE_REFRESH_INTERVAL]
     IN  IF tickRefreshes(ca)
         THEN /\ FreeCalls # {}
              /\ calls' = [calls EXCEPT ![NewCall] = EnterPreload(NewCall, ca, TRUE)]
              /\ intervals' = rearmed
              /\ UNCHANGED cacheRefreshTimer
         ELSE /\ intervals' = clearInterval(rearmed, cacheRefreshTimer)
              /\ cacheRefreshTimer' = 0
              /\ UNCHANGED calls
  /\ UNCHANGED <<now, enableCache, panel, helius, balance, preloadCache, tracked>>

\* ------------------------------------------------- executeBuy / executeSell
cacheAge == now - preloadCache.timestamp

\* A plausible slip (it is the first version of executeBuy): any cache that
\* is within CACHE_TTL is used.
useCachedBuyWithinTTL(ca, amount) ==
  /\ enableCache
  /\ isCacheValid(ca)
  /\ amount \in DOMAIN preloadCache.buyTrades

\* A plausible change: an artifact another execution in flight has taken is
\* not handed out again.
useCachedBuyExclusive(ca, amount) ==
  /\ enableCache
  /\ isCacheValid(ca)
  /\ amount \in DOMAIN preloadCache.buyTrades
  /\ now - preloadCache.timestamp < CACHE_FRESH_THRESHOLD
  /\ \A d \in Calls :
       ~(/\ calls[d].kind = "buy" /\ calls[d].pc # "done" /\ calls[d].useCache
         /\ calls[d].swapTx = preloadCache.buyTrades[amount])

\* A plausible slip: the cache is trusted without comparing its token with
\* the requested one.
useCachedBuyAnyToken(ca, amount) ==
  /\ enableCache
  /\ preloadCache # Null
  /\ now - preloadCache.timestamp < CACHE_TTL
  /\ amount \in DOMAIN preloadCache.buyTrades
  /\ cacheAge < CACHE_FRESH_THRESHOLD

\* executeBuy's decision to take the cached transaction (useCache = true).
useCachedBuy(ca, amount) ==
  /\ enableCache
  /\ isCacheValid(ca)
  /\ amount \in DOMAIN preloadCache.buyTrades
  /\ cacheAge < CACHE_FRESH_THRESHOLD

\* balanceChangePercent < 5, with (balanceDiff / cachedBalance) * 100 compared
\* exactly.
Abs(x) == IF x < 0 THEN -x ELSE x

\* A plausible slip: a drift of exactly 5% still counts as small.
balanceChangeAtMost(tokenBalance, cachedBalance) ==
  IF cachedBalance > 0
  THEN Abs(tokenBalance - cachedBalance) * 100 <= DRIFT_PERCENT * cachedBalance
  ELSE TRUE

balanceChangeSmall(tokenBalance, cachedBalance) ==
  IF cachedBalance > 0
  THEN Abs(tokenBalance - cachedBalance) * 100 < DRIFT_PERCENT * cachedBalance
  ELSE TRUE

\* A plausible slip: executeSell does not look at the cache option.
useCachedSellWhenDisabled(ca, percent, tokenBalance) ==
  /\ isCacheValid(ca)
  /\ percent \in DOMAIN preloadCache.sellTrades
  /\ cacheAge < CACHE_FRESH_THRESHOLD
  /\ balanceChangeSmall(tokenBalance, preloadCache.tokenBalance)

\* executeSell's decision to take the cached transaction.
useCachedSell(ca, percent, tokenBalance) ==
  /\ enableCache
  /\ isCacheValid(ca)
  /\ percent \in DOMAIN preloadCache.sellTrades
  /\ cacheAge < CACHE_FRESH_THRESHOLD
  /\ balanceChangeSmall(tokenBalance, preloadCache.tokenBalance)

\* A plausible slip: the catch block retries whatever the artifact's origin.
retryAlways(call) == TRUE

\* catch (signError) { if (useCache) ... else throw } and the same for sendError.
retryAfterSignError(call) == call.useCache
retryAfterSendError(call) == call.useCache

\* The transaction a synchronous (re)build asks the venue for.
FreshTx(call, rawTokenBalance) ==
  IF call.kind = "buy"
  THEN Artifact(call.ca, "buy", call.key, call.key)
  ELSE Artifact(call.ca, "sell", call.key, rawSellAmount(rawTokenBalance, call.key))

\* wallet.signTransaction(swapTx) returned (signed) or threw; after a signature
\* helius.sendTransaction is awaited.
SignAndSend(call, tx, signed, retryPc) ==
  LET tried == [call EXCEPT !.swapTx = tx, !.signs = @ + 1]
  IN  IF signed THEN [tried EXCEPT !.pc = "send"]
      ELSE IF retryPc # "none" /\ retryAfterSignError(tried)
        THEN [tried EXCEPT !.pc = retryPc]
      ELSE Finished(tried, "error", "SignFailed")

\* EXECUTE_BUY message: executeBuy(ca, amount) up to its first await.
BuyRequest(ca, amount, limit) ==
  /\ InFlight < limit
  /\ calls' = [calls EXCEPT ![NewCall] =
        [IdleCall EXCEPT !.kind = "buy", !.pc = "cfg", !.ca = ca, !.key = amount]]
  /\ UNCHANGED <<now, enableCache, panel, helius, balance, preloadCache,
                 cacheRefreshTimer, intervals, tracked>>

\* EXECUTE_SELL message: executeSell(ca, percent) up to its first await.
SellRequest(ca, percent, limit) ==
  /\ InFlight < limit
  /\ calls' = [calls EXCEPT ![NewCall] =
        [IdleCall EXCEPT !.kind = "sell", !.pc = "bal", !.ca = ca, !.key = percent]]
  /\ UNCHANGED <<now, enableCache, panel, helius, balance, preloadCache,
                 cacheRefreshTimer, intervals, tracked>>

\* A plausible slip: the balance read at the head of executeSell is not tested.
neverNoBalance(tokenBalance) == FALSE

\* if (tokenBalance === 0) throw new Error('No token balance')
noTokenBalance(tokenBalance) == tokenBalance = 0

\* Promise.all([getTokenBalance, getTokenDecimals]) resolved or rejected.
SellBalance(c) ==
  /\ calls[c].kind = "sell" /\ calls[c].pc = "bal"
  /\ \E read \in BOOLEAN :
       LET call == calls[c]
       IN  calls' = [calls EXCEPT ![c] =
             IF ~read THEN Finished(call, "error", "BalanceFailed")
             ELSE IF noTokenBalance(balance[call.ca])
               THEN Finished(call, "error", "NoBalance")
             ELSE [call EXCEPT !.tokenBalance = balance[call.ca],
                               !.decimals = TOKEN_DECIMALS, !.pc = "raw"]]
  /\ UNCHANGED <<now, enableCache, panel, helius, balance, preloadCache,
                 cacheRefreshTimer, intervals, tracked>>

\* getRawTokenBalance resolved or rejected; getConfig is awaited next.
SellRawBalance(c) ==
  /\ calls[c].kind = "sell" /\ calls[c].pc = "raw"
  /\ \E read \in BOOLEAN :
       LET call == calls[c]
       IN  calls' = [calls EXCEPT ![c] =
             IF ~read THEN Finished(call, "error", "BalanceFailed")
             ELSE [call EXCEPT !.rawTokenBalance = balance[call.ca], !.pc = "cfg"]]
  /\ UNCHANGED <<now, enableCache, panel, helius, balance, preloadCache,
                 cacheRefreshTimer, intervals, tracked>>

\* A plausible slip: the lowest entry of the map is taken, whatever the key.
cachedSwapTxAnyKey(call) ==
  LET entries == IF call.kind = "buy" THEN preloadCache.buyTrades
                 ELSE preloadCache.sellTrades
  IN  entries[CHOOSE k \in DOMAIN entries : \A j \in DOMAIN entries : k <= j]

\* preloadCache.buyTrades.get(amount).swapTx / sellTrades.get(percent).swapTx
cachedSwapTx(call) ==
  IF call.kind = "buy" THEN preloadCache.buyTrades[call.key]
  ELSE preloadCache.sellTrades[call.key]

\* getConfig resolved: the cache check; a cached transaction is signed at
\* once, otherwise the venue is asked for a quote and a transaction.
ExecConfig(c) ==
  /\ calls[c].kind \in {"buy", "sell"} /\ calls[c].pc = "cfg"
  /\ LET call == calls[c]
         hit  == IF call.kind = "buy" THEN useCachedBuy(call.ca, call.key)
                 ELSE useCachedSell(call.ca, call.key, call.tokenBalance)
     IN  IF ~helius
         THEN calls' = [calls EXCEPT ![c] = Finished(call, "error", "NotReady")]
         ELSE IF hit
         THEN \E signed \in BOOLEAN :
                calls' = [calls EXCEPT ![c] =
                  SignAndSend([call EXCEPT !.useCache = TRUE],
                              cachedSwapTx(call), signed, "rebuildSign")]
         ELSE calls' = [calls EXCEPT ![c] =
                IF call.kind = "sell" /\ call.rawTokenBalance = 0
                THEN Finished(call, "error", "NoBalance")
                ELSE IF call.kind = "sell"
                        /\ rawSellAmount(call.rawTokenBalance, call.key) = 0
                THEN Finished(call, "error", "AmountTooSmall")
                ELSE [call EXCEPT !.pc = "build"]]
  /\ UNCHANGED <<now, enableCache, panel, helius, balance, preloadCache,
                 cacheRefreshTimer, intervals, tracked>>

\* The quote and the swap transaction of the non-cache path arrived (or one
\* of the two requests failed); the transaction is signed.
ExecBuild(c) ==
  /\ calls[c].kind \in {"buy", "sell"} /\ calls[c].pc = "build"
  /\ \E built \in BOOLEAN, signed \in BOOLEAN :
       LET call == [calls[c] EXCEPT !.quotes = @ + 1]
       IN  calls' = [calls EXCEPT ![c] =
             IF ~built THEN Finished(call, "error", "VenueFailed")
             ELSE SignAndSend(call, FreshTx(call, call.rawTokenBalance),
                              signed, "none")]
  /\ UNCHANGED <<now, enableCache, panel, helius, balance, preloadCache,
                 cacheRefreshTimer, intervals, tracked>>

\* A plausible slip: getSellQuote sends whatever amount it is given.
anySellAmount(inputAmount) == FALSE

\* JupiterClient.getSellQuote: if (inputAmount <= 0) throw, before any request.
invalidSellAmount(inputAmount) == inputAmount <= 0

\* The rebuild inside a catch block: for a sell the balances are read again
\* (a failed read throws) and the amount is recomputed; getSellQuote rejects
\* an amount of 0 before any request; then quote and transaction are fetched
\* and the result is signed.
Rebuild(c, pcNow, pcNext) ==
  /\ calls[c].kind \in {"buy", "sell"} /\ calls[c].pc = pcNow
  /\ \E read \in BOOLEAN, built \in BOOLEAN, signed \in BOOLEAN :
       LET call  == [calls[c] EXCEPT !.rebuilds = @ + 1]
           raw   == balance[call.ca]
           asked == [call EXCEPT !.quotes = @ + 1]
       IN  calls' = [calls EXCEPT ![c] =
             IF call.kind = "sell" /\ ~read
               THEN Finished(call, "error", "BalanceFailed")
             ELSE IF call.kind = "sell"
                     /\ invalidSellAmount(rawSellAmount(raw, call.key))
               THEN Finished(call, "error", "InvalidAmount")
             ELSE IF ~built THEN Finished(asked, "error", "VenueFailed")
             ELSE IF ~signed
               THEN Finished([asked EXCEPT !.swapTx = FreshTx(call, raw),
                                           !.signs = @ + 1], "error", "SignFailed")
             ELSE [asked EXCEPT !.swapTx = FreshTx(call, raw), !.signs = @ + 1,
                                !.pc = pcNext]]
  /\ UNCHANGED <<now, enableCache, panel, helius, balance, preloadCache,
                 cacheRefreshTimer, intervals, tracked>>

ExecRebuildSign(c) == Rebuild(c, "rebuildSign", "send")
ExecRebuildSend(c) == Rebuild(c, "rebuildSend", "resend")

\* A plausible slip: the cache is dropped and its timer left running.
SucceedKeepsTimer(c, call) ==
  /\ preloadCache' = Null
  /\ calls' = [calls EXCEPT ![c] = Finished(call, "ok", "none")]
  /\ tracked' = "none"
  /\ UNCHANGED <<intervals, cacheRefreshTimer>>

\* A plausible slip: only the cache of the executed token is cleared.
SucceedOwnCache(c, call) ==
  LET own == preloadCache # Null /\ preloadCache.ca = call.ca
  IN  /\ intervals' = IF own THEN clearCacheRefresh ELSE intervals
      /\ cacheRefreshTimer' = IF own THEN 0 ELSE cacheRefreshTimer
      /\ preloadCache' = IF own THEN Null ELSE preloadCache
      /\ calls' = [calls EXCEPT ![c] = Finished(call, "ok", "none")]
      /\ tracked' = "none"

\* The end of executeBuy / executeSell: clearCacheRefresh(); preloadCache = null.
Succeed(c, call) ==
  /\ intervals' = clearCacheRefresh
  /\ cacheRefreshTimer' = 0
  /\ preloadCache' = Null
  /\ calls' = [calls EXCEPT ![c] = Finished(call, "ok", "none")]
  /\ tracked' = "none"

\* A plausible slip: the cache is dropped on the way out of a failure too.
FailedClearsCache(c, call, error) ==
  /\ intervals' = clearCacheRefresh
  /\ cacheRefreshTimer' = 0
  /\ preloadCache' = Null
  /\ calls' = [calls EXCEPT ![c] = Finished(call, "error", error)]
  /\ tracked' = "none"

\* The outer catch of executeBuy / executeSell: the error is logged and
\* thrown again; neither the cache nor its timer is touched.
Failed(c, call, error) ==
  /\ calls' = [calls EXCEPT ![c] = Finished(call, "error", error)]
  /\ UNCHANGED <<preloadCache, cacheRefreshTimer, intervals, tracked>>

\* helius.sendTransaction(signedTx) inside the try block resolved or rejected.
ExecSend(c) ==
  /\ calls[c].kind \in {"buy", "sell"} /\ calls[c].pc = "send"
  /\ LET call == [calls[c] EXCEPT !.sends = @ + 1]
     IN  \/ Succeed(c, call)
         \/ /\ calls' = [calls EXCEPT ![c] =
                 IF retryAfterSendError(call) THEN [call EXCEPT !.pc = "rebuildSend"]
                 ELSE Finished(call, "error", "SendFailed")]
            /\ UNCHANGED <<preloadCache, cacheRefreshTimer, intervals, tracked>>
  /\ UNCHANGED <<now, enableCache, panel, helius, balance>>

\* The second helius.sendTransaction, in the catch block, resolved or rejected.
ExecResend(c) ==
  /\ calls[c].kind \in {"buy", "sell"} /\ calls[c].pc = "resend"
  /\ LET call == [calls[c] EXCEPT !.sends = @ + 1]
     IN  \/ Succeed(c, call)
         \/ Failed(c, call, "SendFailed")
  /\ UNCHANGED <<now, enableCache, panel, helius, balance>>

\* The response of a finished call has been delivered (or, for a timer
\* callback, the callback has returned).
Respond(c) ==
  /\ calls[c].pc = "done"
  /\ calls' = [calls EXCEPT ![c] = IdleCall]
  /\ UNCHANGED <<now, enableCache, panel, helius, balance, preloadCache,
                 cacheRefreshTimer, intervals, tracked>>

\* ------------------------------------------- amounts beyond 32 bits
\* rawTokenBalance is a JavaScript number, an IEEE-754 double: the product
\* rawTokenBalance * percent and the quotient by 100 are each rounded to 53
\* significant bits (to nearest, ties to even) before Math.floor.  Below
\* 2^53 / 100 every step is exact and rawSellAmount above is what the code
\* computes.  For the balances beyond, an integer is kept as three limbs
\* <<l0, l1, l2>> of 20 bits, l0 the lowest: l0 + l1 * 2^20 + l2 * 2^40.
MANTISSA == 53
Limb     == 2^20
Zero     == <<0, 0, 0>>

RECURSIVE Bits(_)
Bits(x) == IF x = 0 THEN 0 ELSE 1 + Bits(x \div 2)

BitLength(n) ==
  IF n[3] > 0 THEN 40 + Bits(n[3])
  ELSE IF n[2] > 0 THEN 20 + Bits(n[2])
  ELSE Bits(n[1])

\* Carries are moved up; the top limb takes what is left.
Norm(a) ==
  LET t1 == a[2] + a[1] \div Limb
  IN  <<a[1] % Limb, t1 % Limb, a[3] + t1 \div Limb>>

Times(n, k) == Norm(<<n[1] * k, n[2] * k, n[3] * k>>)

AtMost(a, b) ==
  \/ a[3] < b[3]
  \/ a[3] = b[3] /\ a[2] < b[2]
  \/ a[3] = b[3] /\ a[2] = b[2] /\ a[1] <= b[1]

\* The double nearest to the integer n (n < 2^73: the bits dropped are in
\* the lowest limb).
RoundToDouble(n) ==
  LET s == BitLength(n) - MANTISSA
  IN  IF s <= 0 THEN n
      ELSE LET unit == 2^s
               rem  == n[1] % unit
               odd  == (n[1] \div unit) % 2 = 1
               up   == 2 * rem > unit \/ (2 * rem = unit /\ odd)
           IN  Norm(<<n[1] - rem + (IF up THEN unit ELSE 0), n[2], n[3]>>)

DivMod100(n) ==
  LET t1 == (n[3] % 100) * Limb + n[2]
      t0 == (t1 % 100) * Limb + n[1]
  IN  [q |-> <<t0 \div 100, t1 \div 100, n[3] \div 100>>, r |-> t0 % 100]

\* Math.floor(n / 100) for a double n whose quotient is below 2^53: the
\* quotient q + r/100 is rounded to the double nearest to it, which has
\* 53 - BitLength(q) fraction bits, and reaches q + 1 when r/100 is within
\* half a unit of the last place of 1.
FloorOfQuotient(n) ==
  LET d  == DivMod100(n)
      k  == MANTISSA - BitLength(d.q)
      up == IF d.r = 0 THEN FALSE
            ELSE IF k >= 1 THEN k <= 5 /\ (100 - d.r) * 2^k <= 50
            ELSE 2 * d.r > 100 \/ (2 * d.r = 100 /\ d.q[1] % 2 = 1)
  IN  IF up THEN Norm(<<d.q[1] + 1, d.q[2], d.q[3]>>) ELSE d.q

\* Math.floor((rawTokenBalance * percent) / 100) as the runtime computes it.
rawSellAmountDouble(rawTokenBalance, percent) ==
  FloorOfQuotient(RoundToDouble(Times(rawTokenBalance, percent)))

\* Raw balances getRawTokenBalance can return (all below 2^53, where
\* parseInt is exact): 0, 100, 10^15, 360287970189640, 360287970189641,
\* 5764607523034242 and 6652463699252619.
WideBalances ==
  {Zero, <<100, 0, 0>>, <<425984, 518732, 909>>, <<713032, 713031, 327>>,
   <<713033, 713031, 327>>, <<922754, 922746, 5242>>, <<841099, 398970, 6050>>}

Percents == 0..100

\* The non-cache path of executeSell from the cache check to the quote
\* request (index.ts 767-805), for a call that has read a wide raw balance.
SellAmount(c) ==
  /\ calls[c].kind = "sell" /\ calls[c].pc = "amount"
  /\ LET call == calls[c]
         amount == rawSellAmountDouble(call.rawTokenBalance, call.key)
     IN  calls' = [calls EXCEPT ![c] =
           IF call.rawTokenBalance = Zero THEN Finished(call, "error", "NoBalance")
           ELSE IF amount = Zero THEN Finished(call, "error", "AmountTooSmall")
           ELSE [call EXCEPT !.pc = "quote", !.quotes = @ + 1,
                   !.swapTx = Artifact(call.ca, "sell", call.key, amount)]]
  /\ UNCHANGED <<now, enableCache, panel, helius, balance, preloadCache,
                 cacheRefreshTimer, intervals, tracked>>

\* ------------------------------------------------- the priority channel
\* JitoClient (src/src/background/jito.ts): sendBundle, pollBundleStatus and
\* sendAndConfirmBundle.  A call of kind "bundle" keeps the retries argument
\* in key, counts its fetches of the bundle endpoint in sends and its status
\* queries in checkCount.
DEFAULT_RETRIES == 3
MAX_BUNDLE      == 5
POLL_INTERVAL   == 500

MaxRetries   == 3
Retries      == 0..MaxRetries
BundleSizes  == {0, 1, 6}
PollTimeouts == {500, 1000}

\* What one POST to the bundle endpoint can come to.
SendOutcomes ==
  {"ok", "http429", "rpcRateLimit", "httpError", "rpcError", "networkError"}
\* response.status === 429, or data.error.code === -32097 / 'rate limit'.
isRateLimit(o) == o \in {"http429", "rpcRateLimit"}

\* The async function has settled; the record stays until it is collected.
Settled(call, result, error) ==
  [call EXCEPT !.pc = "done", !.result = result, !.error = error]

Threw(call, error) == Settled(call, "error", error)

\* A plausible slip: the loop of pollBundleStatus has no deadline.
PollLoopNoDeadline(call) == [call EXCEPT !.pc = "poll", !.checkCount = @ + 1]

\* The head of the while loop of pollBundleStatus: another status query is
\* sent, or the timeout status is returned.
PollLoop(call) ==
  IF now - call.startTime < call.timeout
  THEN [call EXCEPT !.pc = "poll", !.checkCount = @ + 1]
  ELSE Settled(call, "timeout", "PollTimeout")

\* sendBundle returns id; sendAndConfirmBundle passes whatever it got to
\* pollBundleStatus, which runs up to its first fetch.
Returned(call, id) ==
  LET r == [call EXCEPT !.bundleId = id]
  IN  IF call.thenPoll THEN PollLoop([r EXCEPT !.startTime = now])
      ELSE Settled(r, id, "none")

\* if (attempt < retries - 1) continue; after a rate-limit answer.
retryAfterRateLimit(attempt, retries) == attempt < retries - 1

\* A plausible slip: a rate limit on the last attempt is thrown like any
\* other failure.
RateLimitThrown(call) == Threw(call, "RateLimited")

\* else return null: the last attempt was rate-limited too.
RateLimitExhausted(call) == Returned(call, "null")

\* catch (error) { if (attempt === retries - 1) throw error; } otherwise the
\* loop goes on with the next attempt.
rethrown(attempt, retries) == attempt = retries - 1

\* sendBundle(signedTransactions, retries) up to its first await.  With
\* retries <= 0 the loop body never runs; a bundle of a wrong size throws in
\* every iteration before any await and the last iteration rethrows.
BundleRequest(size, retries, thenPoll, timeout, limit) ==
  /\ InFlight < limit
  /\ LET call == [IdleCall EXCEPT !.kind = "bundle", !.size = size,
                                  !.key = retries, !.thenPoll = thenPoll,
                                  !.timeout = timeout]
     IN  calls' = [calls EXCEPT ![NewCall] =
           IF retries <= 0 THEN Returned(call, "null")
           ELSE IF size = 0 \/ size > MAX_BUNDLE THEN Threw(call, "InvalidBundle")
           ELSE [call EXCEPT !.pc = "attempt"]]
  /\ UNCHANGED <<now, enableCache, panel, helius, balance, preloadCache,
                 cacheRefreshTimer, intervals, tracked>>

SendBundle(size, retries) == BundleRequest(size, retries, FALSE, 0, 1)

SendAndConfirmBundle(size, timeout) ==
  BundleRequest(size, DEFAULT_RETRIES, TRUE, timeout, 1)

\* One iteration of the loop of sendBundle: the backoff delay (from the
\* second attempt on) has passed and the fetch has been answered.
SendBundleAttempt(c) ==
  /\ calls[c].kind = "bundle" /\ calls[c].pc = "attempt"
  /\ \E o \in SendOutcomes :
       LET call == [calls[c] EXCEPT !.sends = @ + 1, !.last = o,
                      !.hard = @ \/ (o # "ok" /\ ~isRateLimit(o))]
           next == [call EXCEPT !.attempt = @ + 1]
       IN  calls' = [calls EXCEPT ![c] =
             IF o = "ok" THEN Returned(call, "id")
             ELSE IF isRateLimit(o)
               THEN IF retryAfterRateLimit(call.attempt, call.key) THEN next
                    ELSE RateLimitExhausted(call)
             ELSE IF rethrown(call.attempt, call.key) THEN Threw(call, o)
             ELSE next]
  /\ UNCHANGED <<now, enableCache, panel, helius, balance, preloadCache,
                 cacheRefreshTimer, intervals, tracked>>

\* What one GET of the bundle status can come to: a response that is not ok,
\* an error object, an exception, or a status.
PollOutcomes ==
  {"httpError", "rpcError", "exception", "pending", "landed", "failed", "timeout"}

Sleeping(call) == [call EXCEPT !.pc = "sleep", !.wakeAt = now + POLL_INTERVAL]

\* The status query of pollBundleStatus has been answered.
PollResponse(c) ==
  /\ calls[c].kind = "bundle" /\ calls[c].pc = "poll"
  /\ \E o \in PollOutcomes :
       LET call == [calls[c] EXCEPT !.observed = o]
       IN  calls' = [calls EXCEPT ![c] =
             IF o \in {"landed", "failed", "timeout"} THEN Settled(call, o, "none")
             ELSE Sleeping(call)]
  /\ UNCHANGED <<now, enableCache, panel, helius, balance, preloadCache,
                 cacheRefreshTimer, intervals, tracked>>

\* The setTimeout of pollBundleStatus has fired.
PollWake(c) ==
  /\ calls[c].kind = "bundle" /\ calls[c].pc = "sleep"
  /\ now >= calls[c].wakeAt
  /\ calls' = [calls EXCEPT ![c] = PollLoop(@)]
  /\ UNCHANGED <<now, enableCache, panel, helius, balance, preloadCache,
                 cacheRefreshTimer, intervals, tracked>>

\* Date.now() as pollBundleStatus sees it, without a horizon: up to
\* PollHorizon the clock advances; from there on the times the polling calls hold move
\* back instead, which keeps every difference the loop compares (a start
\* time further back than the longest timeout compares like one exactly
\* that far back, a due time in the past like one at 0).
PollHorizon == 3000
LongestTimeout == CHOOSE t \in PollTimeouts : \A u \in PollTimeouts : u <= t
Later(a, b) == IF a >= b THEN a ELSE b
PassTime(step) ==
  /\ IF now + step <= PollHorizon
     THEN now' = now + step /\ UNCHANGED calls
     ELSE /\ now' = now
          /\ calls' = [c \in Calls |->
               IF calls[c].kind = "bundle" /\ calls[c].pc \in {"poll", "sleep"}
               THEN [calls[c] EXCEPT
                       !.startTime = Later(@ - step, now - LongestTimeout),
                       !.wakeAt = Later(@ - step, 0)]
               ELSE calls[c]]
  /\ UNCHANGED <<enableCache, panel, helius, balance, preloadCache,
                 cacheRefreshTimer, intervals, tracked>>

\* --------------------------------------------- the confirmation poller
\* HeliusClient.confirmTransaction (index.ts 1640-1699).  A call of kind
\* "confirm" counts its status queries in checkCount; last tells whether
\* the latest query was answered ("status") or failed ("queryFailed"), and
\* hard whether any query failed.
CONFIRM_INTERVAL == 500

ConfirmTimeouts == {500, 1000}

\* value[0] of getSignatureStatuses: null, or a status with its err and
\* confirmationStatus.
Statuses ==
  {NoStatus} \cup [known : {TRUE}, err : BOOLEAN,
                   confirmationStatus : {"processed", "confirmed", "finalized"}]

\* A plausible slip: the confirmation status is looked at before err.
verdictConfirmedFirst(status) ==
  IF ~status.known THEN "pending"
  ELSE IF status.confirmationStatus \in {"confirmed", "finalized"} THEN "confirmed"
  ELSE IF status.err THEN "failed"
  ELSE "pending"

\* if (status) { if (status.err) return failure; if (confirmed or finalized)
\* return confirmed } and otherwise the loop goes on.
verdict(status) ==
  IF ~status.known THEN "pending"
  ELSE IF status.err THEN "failed"
  ELSE IF status.confirmationStatus \in {"confirmed", "finalized"} THEN "confirmed"
  ELSE "pending"

\* The head of the while loop of confirmTransaction: another query is sent,
\* or the time is up and one of the two timeout results is returned.
ConfirmLoop(call) ==
  IF now - call.startTime < call.timeout
  THEN [call EXCEPT !.pc = "query", !.checkCount = @ + 1]
  ELSE IF call.lastStatus.known /\ ~call.lastStatus.err
    THEN Settled(call, "notConfirmed", "ConfirmTimeout")
  ELSE Settled(call, "notConfirmed", "Expired")

\* confirmTransaction(signature, timeout) up to its first await.
ConfirmRequest(timeout, limit) ==
  /\ InFlight < limit
  /\ calls' = [calls EXCEPT ![NewCall] =
       ConfirmLoop([IdleCall EXCEPT !.kind = "confirm", !.timeout = timeout,
                                    !.startTime = now])]
  /\ UNCHANGED <<now, enableCache, panel, helius, balance, preloadCache,
                 cacheRefreshTimer, intervals, tracked>>

\* A plausible slip (the earlier copies of confirmTransaction have no try
\* block): a failed status query ends the polling with its error.
QueryFailedThrown(call) == Threw([call EXCEPT !.last = "queryFailed"], "QueryFailed")

\* catch (e) { console.warn(...) }: the failed query is logged, the loop
\* sleeps and goes on.
QueryFailed(call) ==
  [call EXCEPT !.pc = "sleep", !.wakeAt = now + CONFIRM_INTERVAL,
               !.last = "queryFailed", !.hard = TRUE]

\* The status query has been answered (fetch and response.json resolved) or
\* has failed (one of them threw).
ConfirmResponse(c) ==
  /\ calls[c].kind = "confirm" /\ calls[c].pc = "query"
  /\ \/ calls' = [calls EXCEPT ![c] = QueryFailed(@)]
     \/ \E status \in Statuses :
          LET call == [calls[c] EXCEPT !.lastStatus = status, !.last = "status"]
          IN  calls' = [calls EXCEPT ![c] =
                CASE verdict(status) = "failed" ->
                       Settled(call, "notConfirmed", "ExecutionFailed")
                  [] verdict(status) = "confirmed" ->
                       Settled(call, "confirmed", "none")
                  [] OTHER ->
                       [call EXCEPT !.pc = "sleep",
                                    !.wakeAt = now + CONFIRM_INTERVAL]]
  /\ UNCHANGED <<now, enableCache, panel, helius, balance, preloadCache,
                 cacheRefreshTimer, intervals, tracked>>

\* The setTimeout of confirmTransaction has fired.
ConfirmWake(c) ==
  /\ calls[c].kind = "confirm" /\ calls[c].pc = "sleep"
  /\ now >= calls[c].wakeAt
  /\ calls' = [calls EXCEPT ![c] = ConfirmLoop(@)]
  /\ UNCHANGED <<now, enableCache, panel, helius, balance, preloadCache,
                 cacheRefreshTimer, intervals, tracked>>

\* ------------------------------------------------------ the content panel
\* src/src/content/index.ts: the panel's status, the disabled flag its buy
\* and sell buttons share (updateButtons sets all of them), the debounce
\* timeout of the CA input and the messages it has sent to the background
\* and that are not answered yet.  The background's answers are events.
MaxPanelRequests == 2

\* What the CA input can hold: nothing, a text shorter than 32 characters,
\* a token address.
PanelInputs == {"", "short"} \cup Tokens

\* updateButtons(enabled): canTrade = enabled && currentCA.length >= 32.
updateButtons(p, enabled) ==
  [p EXCEPT !.enabled = enabled /\ p.currentCA \in Tokens]

\* handleCAInput: the input event of the CA field (typed, or dispatched by
\* the CA extraction); the field is never disabled.
handleCAInput(ca) ==
  /\ panel' =
       IF ca \in Tokens
       THEN [panel EXCEPT !.currentCA = ca, !.status = "loading",
                          !.preloadTimeout = TRUE]
       ELSE updateButtons([panel EXCEPT !.currentCA = ca, !.status = "idle",
                                        !.preloadTimeout = FALSE], FALSE)
  /\ UNCHANGED <<now, enableCache, helius, balance, preloadCache,
                 cacheRefreshTimer, intervals, calls, tracked>>

\* The debounce timeout fires: preloadTrades of the panel up to its await.
PanelPreload ==
  /\ panel.preloadTimeout
  /\ panel.preloads < MaxPanelRequests
  /\ panel' =
       IF panel.currentCA \notin Tokens
       THEN [panel EXCEPT !.preloadTimeout = FALSE]
       ELSE updateButtons([panel EXCEPT !.preloadTimeout = FALSE,
                                        !.status = "loading",
                                        !.preloads = @ + 1], FALSE)
  /\ UNCHANGED <<now, enableCache, helius, balance, preloadCache,
                 cacheRefreshTimer, intervals, calls, tracked>>

\* The answer to a PRELOAD_TRADES message: the rest of preloadTrades.
PanelPreloadResponse(ok) ==
  /\ panel.preloads > 0
  /\ panel' =
       IF ok
       THEN updateButtons([panel EXCEPT !.preloads = @ - 1, !.status = "ready"],
                          TRUE)
       ELSE updateButtons([panel EXCEPT !.preloads = @ - 1, !.status = "error"],
                          FALSE)
  /\ UNCHANGED <<now, enableCache, helius, balance, preloadCache,
                 cacheRefreshTimer, intervals, calls, tracked>>

\* A click on a buy or sell button that is not disabled: handleBuy /
\* handleSell up to the await of the EXECUTE_BUY / EXECUTE_SELL message.
handleTrade ==
  /\ panel.enabled
  /\ panel.currentCA # ""
  /\ panel.executes < MaxPanelRequests
  /\ panel' = updateButtons([panel EXCEPT !.status = "executing",
                                          !.executes = @ + 1], FALSE)
  /\ UNCHANGED <<now, enableCache, helius, balance, preloadCache,
                 cacheRefreshTimer, intervals, calls, tracked>>

\* The answer to the execution message: the rest of handleBuy / handleSell.
\* After a success refreshBalance is called and not awaited.
handleTradeResponse(ok) ==
  /\ panel.executes > 0
  /\ ok => panel.refreshes < MaxPanelRequests
  /\ panel' =
       IF ok
       THEN updateButtons([panel EXCEPT !.executes = @ - 1, !.status = "ready",
                                        !.refreshes = @ + 1], TRUE)
       ELSE updateButtons([panel EXCEPT !.executes = @ - 1, !.status = "error"],
                          TRUE)
  /\ UNCHANGED <<now, enableCache, helius, balance, preloadCache,
                 cacheRefreshTimer, intervals, calls, tracked>>

\* A click on the refresh button: refreshBalance up to its await.
refreshBalance ==
  /\ panel.refreshes < MaxPanelRequests
  /\ panel' = [panel EXCEPT !.refreshes = @ + 1]
  /\ UNCHANGED <<now, enableCache, helius, balance, preloadCache,
                 cacheRefreshTimer, intervals, calls, tracked>>

\* The answer to GET_WALLET_STATE: updateButtons(status === 'ready'), or the
\* catch block, which leaves the buttons alone.
refreshBalanceResponse(ok) ==
  /\ panel.refreshes > 0
  /\ panel' =
       IF ok
       THEN updateButtons([panel EXCEPT !.refreshes = @ - 1],
                          panel.status = "ready")
       ELSE [panel EXCEPT !.refreshes = @ - 1]
  /\ UNCHANGED <<now, enableCache, helius, balance, preloadCache,
                 cacheRefreshTimer, intervals, calls, tracked>>

\* ------------------------------------------------------- specifications
\* Spec: up to MaxCalls calls interleave with each other, with the timer and
\* with the clock; the configuration and the balances are fixed and the
\* venue serves every preset of a preload.
Next ==
  \/ AdvanceClock(ClockStep)
  \/ \E ca \in Tokens : PreloadRequest(ca, MaxCalls)
  \/ \E c \in Calls : PreloadConfig(c)
  \/ \E c \in Calls : PreloadFetch(c, {BuyPresets})
  \/ \E c \in Calls : PreloadSell(c, {SellPresets})
  \/ \E i \in TimerIds : Tick(i)
  \/ \E ca \in Tokens : BuyRequest(ca, 36, MaxCalls)
  \/ \E ca \in Tokens : SellRequest(ca, 100, MaxCalls)
  \/ \E c \in Calls : SellBalance(c)
  \/ \E c \in Calls : SellRawBalance(c)
  \/ \E c \in Calls : ExecConfig(c)
  \/ \E c \in Calls : ExecBuild(c)
  \/ \E c \in Calls : ExecRebuildSign(c)
  \/ \E c \in Calls : ExecSend(c)
  \/ \E c \in Calls : ExecRebuildSend(c)
  \/ \E c \in Calls : ExecResend(c)
  \/ \E c \in Calls : Respond(c)

Spec == Init /\ [][Next]_vars

\* SpecSeq: one request at a time for token A and no timer tick, with a finer
\* clock, a changing balance and a venue that serves a preload every preset
\* or none.
AllOrNone(presets) == {presets, {}}

NextSeq ==
  \/ AdvanceClock(FineStep)
  \/ \E b \in BalanceValues : BalanceChange("A", b)
  \/ PreloadRequest("A", 1)
  \/ \E c \in Calls : PreloadConfig(c)
  \/ \E c \in Calls : PreloadFetch(c, AllOrNone(BuyPresets))
  \/ \E c \in Calls : PreloadSell(c, AllOrNone(SellPresets))
  \/ \E a \in BuyPresets : BuyRequest("A", a, 1)
  \/ \E p \in SellPresets : SellRequest("A", p, 1)
  \/ \E c \in Calls : SellBalance(c)
  \/ \E c \in Calls : SellRawBalance(c)
  \/ \E c \in Calls : ExecConfig(c)
  \/ \E c \in Calls : ExecBuild(c)
  \/ \E c \in Calls : ExecRebuildSign(c)
  \/ \E c \in Calls : ExecSend(c)
  \/ \E c \in Calls : ExecRebuildSend(c)
  \/ \E c \in Calls : ExecResend(c)
  \/ \E c \in Calls : Respond(c)

SpecSeq == Init /\ [][NextSeq]_vars

\* SpecPreload: preloads only, one user request at a time beside the
\* timer-driven ones, while the balance of token A changes, against a venue
\* that serves any subset of the presets; the clock advances by refresh
\* intervals.
PreloadBalances == {0, 96, 100}

NextPreload ==
  \/ AdvanceClock(CACHE_REFRESH_INTERVAL)
  \/ \E b \in PreloadBalances : BalanceChange("A", b)
  \/ \E ca \in Tokens : PreloadRequest(ca, 1)
  \/ \E c \in Calls : PreloadConfig(c)
  \/ \E c \in Calls : PreloadFetch(c, SUBSET BuyPresets)
  \/ \E c \in Calls : PreloadSell(c, SUBSET SellPresets)
  \/ \E i \in TimerIds : Tick(i)
  \/ \E c \in Calls : Respond(c)

SpecPreload == Init /\ [][NextPreload]_vars

\* SpecConfig: preloads for token A while SAVE_CONFIG messages switch the
\* cache option and add or remove the API key.
NextConfig ==
  \/ AdvanceClock(ClockStep)
  \/ \E e \in BOOLEAN, h \in BOOLEAN : SaveConfig(e, h)
  \/ PreloadRequest("A", MaxCalls)
  \/ \E c \in Calls : PreloadConfig(c)
  \/ \E c \in Calls : PreloadFetch(c, {BuyPresets})
  \/ \E c \in Calls : PreloadSell(c, {SellPresets})
  \/ \E i \in TimerIds : Tick(i)
  \/ \E c \in Calls : Respond(c)

SpecConfig == Init /\ [][NextConfig]_vars

\* SpecSubmit: the two submission channels on their own, one call at a time:
\* sendBundle and sendAndConfirmBundle of the priority channel and
\* confirmTransaction of the direct one, against endpoints that answer in
\* every way; the clock advances by poll intervals.
NextSubmit ==
  \/ AdvanceClock(POLL_INTERVAL)
  \/ \E size \in BundleSizes, retries \in Retries : SendBundle(size, retries)
  \/ \E size \in BundleSizes, t \in PollTimeouts : SendAndConfirmBundle(size, t)
  \/ \E c \in Calls : SendBundleAttempt(c)
  \/ \E c \in Calls : PollResponse(c)
  \/ \E c \in Calls : PollWake(c)
  \/ \E t \in ConfirmTimeouts : ConfirmRequest(t, 1)
  \/ \E c \in Calls : ConfirmResponse(c)
  \/ \E c \in Calls : ConfirmWake(c)
  \/ \E c \in Calls : Respond(c)

SpecSubmit == Init /\ [][NextSubmit]_vars

\* SpecPoll: sendAndConfirmBundle on its own, one call at a time, with a
\* clock that never stops.  Fairness: the event loop fires a due setTimeout
\* and time passes; every status query is answered or fails in the end.
NextPoll ==
  \/ PassTime(POLL_INTERVAL)
  \/ \E size \in BundleSizes, t \in PollTimeouts : SendAndConfirmBundle(size, t)
  \/ \E c \in Calls : SendBundleAttempt(c)
  \/ \E c \in Calls : PollResponse(c)
  \/ \E c \in Calls : PollWake(c)
  \/ \E c \in Calls : Respond(c)

SpecPoll ==
  /\ Init /\ [][NextPoll]_vars
  /\ WF_vars(PassTime(POLL_INTERVAL))
  /\ \A c \in Calls : WF_vars(PollResponse(c)) /\ WF_vars(PollWake(c))

\* SpecAmount: the sell amount as a function of the raw balance and the
\* percentage: executeSell calls that have read any of WideBalances and
\* found no usable cache compute their amount.
InitAmount ==
  /\ now = 0
  /\ enableCache = TRUE
  /\ helius = TRUE
  /\ balance = [t \in Tokens |-> 0]
  /\ preloadCache = Null
  /\ cacheRefreshTimer = 0
  /\ intervals = [i \in TimerIds |-> IdleInterval]
  /\ tracked = "none"
  /\ panel = InitPanel
  /\ \E raw \in WideBalances, percent \in Percents :
       calls = [c \in Calls |->
         IF c = 1
         THEN [IdleCall EXCEPT !.kind = "sell", !.pc = "amount", !.key = percent,
                               !.rawTokenBalance = raw]
         ELSE IdleCall]

NextAmount ==
  \/ \E c \in Calls : SellAmount(c)
  \/ \E c \in Calls : Respond(c)

SpecAmount == InitAmount /\ [][NextAmount]_vars

\* SpecPanel: the content panel on its own, with a user who types, clicks
\* whatever is not disabled and a background that answers every message
\* with success or failure, in any order.
NextPanel ==
  \/ \E ca \in PanelInputs : handleCAInput(ca)
  \/ PanelPreload
  \/ \E ok \in BOOLEAN : PanelPreloadResponse(ok)
  \/ handleTrade
  \/ \E ok \in BOOLEAN : handleTradeResponse(ok)
  \/ refreshBalance
  \/ \E ok \in BOOLEAN : refreshBalanceResponse(ok)

SpecPanel == Init /\ [][NextPanel]_vars

\* SpecToggle: preloads and executions for token A, one request at a time,
\* while SAVE_CONFIG messages switch the cache option; the venue serves
\* every preset.
NextToggle ==
  \/ AdvanceClock(FineStep)
  \/ \E e \in BOOLEAN : SaveConfig(e, TRUE)
  \/ PreloadRequest("A", 1)
  \/ \E c \in Calls : PreloadConfig(c)
  \/ \E c \in Calls : PreloadFetch(c, {BuyPresets})
  \/ \E c \in Calls : PreloadSell(c, {SellPresets})
  \/ \E a \in BuyPresets : BuyRequest("A", a, 1)
  \/ \E p \in SellPresets : SellRequest("A", p, 1)
  \/ \E c \in Calls : SellBalance(c)
  \/ \E c \in Calls : SellRawBalance(c)
  \/ \E c \in Calls : ExecConfig(c)
  \/ \E c \in Calls : ExecBuild(c)
  \/ \E c \in Calls : ExecRebuildSign(c)
  \/ \E c \in Calls : ExecSend(c)
  \/ \E c \in Calls : ExecRebuildSend(c)
  \/ \E c \in Calls : ExecResend(c)
  \/ \E c \in Calls : Respond(c)

SpecToggle == Init /\ [][NextToggle]_vars

\* ------------------------------------------------------------------ claims
Execs == {c \in Calls : calls[c].kind \in {"buy", "sell"}}
ActiveTimers == {i \in TimerIds : intervals[i].active}

\* C1: in one executeBuy / executeSell call the artifact is rebuilt at most
\* once: a rebuild after a signing failure is never followed by another
\* rebuild after a submission failure.
C1_AtMostOneRebuild ==
  \A c \in Execs : calls[c].rebuilds <= 1

\* C2: a call whose artifact did not come from the cache never rebuilds,
\* never signs twice and never submits twice: its first signing or
\* submission failure ends it.
C2_NoRetryWithoutCache ==
  \A c \in Execs :
    ~calls[c].useCache =>
      /\ calls[c].rebuilds = 0
      /\ calls[c].signs <= 1
      /\ calls[c].sends <= 1
      /\ calls[c].pc \notin {"rebuildSign", "rebuildSend", "resend"}

C2_Witness ==
  \E c \in Execs :
    /\ calls[c].pc = "done" /\ ~calls[c].useCache
    /\ calls[c].error = "SendFailed"
    /\ calls[c].signs = 1 /\ calls[c].sends = 1 /\ calls[c].rebuilds = 0

\* The cache holds an entry for what call asks (its token and its key).
CacheHolds(call) ==
  /\ preloadCache # Null
  /\ preloadCache.ca = call.ca
  /\ call.key \in DOMAIN (IF call.kind = "buy" THEN preloadCache.buyTrades
                          ELSE preloadCache.sellTrades)

CacheEntry(call) ==
  IF call.kind = "buy" THEN preloadCache.buyTrades[call.key]
  ELSE preloadCache.sellTrades[call.key]

Drifted(call) ==
  Abs(call.tokenBalance - preloadCache.tokenBalance) * 100
    >= 5 * preloadCache.tokenBalance

\* C3: with caching enabled and a cache entry for the request (and, for a
\* sell, no balance drift), the cache check takes the cached artifact, without
\* a venue build, when now - createdAt < 5000 and goes to a rebuild when
\* now - createdAt >= 5000, also while the cache is younger than CACHE_TTL.
C3_FreshnessBoundary ==
  [][\A c \in Execs :
       (/\ calls[c].pc = "cfg" /\ calls'[c] # calls[c]
        /\ helius /\ enableCache /\ CacheHolds(calls[c])
        /\ (calls[c].kind = "sell" => ~Drifted(calls[c])))
       => IF now - preloadCache.timestamp < 5000
          THEN /\ calls'[c].useCache
               /\ calls'[c].swapTx = CacheEntry(calls[c])
               /\ calls'[c].rebuilds = 0
               /\ calls'[c].pc \in {"send", "rebuildSign"}
          ELSE /\ ~calls'[c].useCache
               /\ calls'[c].swapTx = NoTx
               /\ calls'[c].pc \in {"build", "done"}]_vars

\* A buy is being rebuilt although the cache holds its entry and is exactly
\* CACHE_FRESH_THRESHOLD old, half its TTL.
C3_Witness ==
  \E c \in Execs :
    /\ calls[c].kind = "buy" /\ calls[c].pc = "build" /\ ~calls[c].useCache
    /\ enableCache /\ CacheHolds(calls[c])
    /\ now - preloadCache.timestamp = CACHE_FRESH_THRESHOLD

C5_SuccessClears ==
  [][\A c \in Calls :
       (/\ calls[c].pc # "done" /\ calls'[c].pc = "done"
        /\ calls'[c].kind \in {"buy", "sell"} /\ calls'[c].result = "ok")
       => /\ preloadCache' = Null
          /\ cacheRefreshTimer' = 0
          /\ \A i \in TimerIds : ~intervals'[i].active]_vars

\* An execution that did not use the cache has returned a signature after a
\* preload had installed a cache, and the cache is gone.
C5_Witness ==
  \E c, d \in Calls :
    /\ calls[c].pc = "done" /\ calls[c].kind \in {"buy", "sell"}
    /\ calls[c].result = "ok" /\ ~calls[c].useCache
    /\ calls[d].pc = "done" /\ calls[d].kind = "preload" /\ calls[d].result = "ok"
    /\ preloadCache = Null /\ cacheRefreshTimer = 0

\* C6: after a successful execution the cache stays null and the timer
\* unarmed until the next PRELOAD_TRADES request.
C6_ClearedUntilNextRequest ==
  tracked = "none" => preloadCache = Null /\ cacheRefreshTimer = 0

\* C7: every live interval is the one the global handle refers to.
C7_OneTimer ==
  \A i \in TimerIds : intervals[i].active => cacheRefreshTimer = i

\* Two preloads have installed their caches one after the other.
C7_Witness ==
  /\ \A c \in Calls : /\ calls[c].pc = "done" /\ calls[c].kind = "preload"
                      /\ calls[c].result = "ok"
  /\ cacheRefreshTimer # 0
  /\ Cardinality(ActiveTimers) = 1

\* C8 is about a tick of a timer armed for a token the cache does not hold.
\* No such tick exists: cache and timer are installed together (InstallCache)
\* and cleared together (Succeed), so a live interval always finds the cache
\* non-null and holding its own token.
TimerMatchesCache ==
  \A i \in TimerIds :
    intervals[i].active =>
      preloadCache # Null /\ preloadCache.ca = intervals[i].ca

\* C9: the step that takes a PRELOAD_TRADES request for a token other than
\* the cached one leaves the cache null or holding the requested token.
C9_RequestInvalidates ==
  [][\A c \in Calls :
       (/\ calls[c].kind = "idle"
        /\ calls'[c].kind = "preload" /\ ~calls'[c].timer
        /\ preloadCache # Null /\ preloadCache.ca # calls'[c].ca)
       => (preloadCache' = Null \/ preloadCache'.ca = calls'[c].ca)]_vars

\* C10: once the cache holds the token of the latest request, nothing but a
\* new request or a successful execution takes it away from that token.
C10_FollowsLatestRequest ==
  [][(/\ preloadCache # Null /\ preloadCache.ca = tracked /\ tracked' = tracked)
       => (preloadCache' # Null /\ preloadCache'.ca = tracked)]_vars

\* A step of the interval callback of timer i: the registry changes and no
\* call completes (a completing preload or execution changes it too).
TickStep(i) ==
  /\ intervals[i].active /\ now >= intervals[i].nextFire
  /\ intervals'[i] # intervals[i]
  /\ \A c \in Calls : calls'[c].pc = "done" => calls[c].pc = "done"

\* The calls that begin preloadTrades in this step.
StartedPreloads ==
  {c \in Calls : calls[c].kind = "idle" /\ calls'[c].kind = "preload"}

\* C11: a tick of the timer armed for T re-runs preloadTrades(T) and leaves
\* the timer armed when the cache exists, holds T and is younger than
\* CACHE_TTL (10 s); otherwise it cancels the timer and runs no preload.
C11_TickRule ==
  [][\A i \in TimerIds :
       TickStep(i) =>
         IF /\ preloadCache # Null /\ preloadCache.ca = intervals[i].ca
            /\ now - preloadCache.timestamp < 10000
         THEN /\ \E c \in StartedPreloads :
                   calls'[c].ca = intervals[i].ca /\ calls'[c].timer
              /\ intervals'[i].active
              /\ cacheRefreshTimer' = i
              /\ preloadCache' = preloadCache
         ELSE /\ StartedPreloads = {}
              /\ ~intervals'[i].active
              /\ cacheRefreshTimer' = 0
              /\ preloadCache' = preloadCache]_vars

\* A tick found the cache expired: the cache is still there, no timer is.
C11_Witness ==
  /\ preloadCache # Null
  /\ now - preloadCache.timestamp >= CACHE_TTL
  /\ cacheRefreshTimer = 0
  /\ ActiveTimers = {}

\* C12: when the preloadTrades started by a tick throws, the callback drops
\* the error and the cache is what it was.
C12_RefreshFailureSwallowed ==
  [][\A c \in Calls :
       (/\ calls[c].kind = "preload" /\ calls[c].timer
        /\ calls[c].pc # "done" /\ calls'[c].pc = "done"
        /\ calls'[c].error # "none")
       => /\ calls'[c].result = "swallowed"
          /\ preloadCache' = preloadCache]_vars

\* A timer-driven preload has thrown for want of the clients and the cache
\* is still installed.
C12_Witness ==
  \E c \in Calls :
    /\ calls[c].kind = "preload" /\ calls[c].pc = "done"
    /\ calls[c].result = "swallowed" /\ calls[c].error = "NotReady"
    /\ preloadCache # Null

\* The step in which preloadTrades call c, past its configuration check,
\* returns.
CompleteStep(c) ==
  /\ calls[c].kind = "preload" /\ calls[c].pc \in {"fetch", "sell"}
  /\ calls'[c].pc = "done"

\* C13: a preload of T that completes leaves a cache for T whose buy map
\* has an entry for exactly the configured amounts the venue served, each
\* the transaction for that amount.
C13_BuyEntries ==
  [][\A c \in Calls :
       (CompleteStep(c) /\ calls'[c].result = "ok")
       => /\ preloadCache' # Null
          /\ preloadCache'.ca = calls[c].ca
          /\ DOMAIN preloadCache'.buyTrades
               = {a \in BuyPresets : a \in preloadCache'.inputs.okBuys}
          /\ \A a \in DOMAIN preloadCache'.buyTrades :
               preloadCache'.buyTrades[a] = Artifact(calls[c].ca, "buy", a, a)]_vars

\* The venue failed for one of the two amounts: the other one is cached.
C13_Witness ==
  /\ preloadCache # Null
  /\ preloadCache.inputs.okBuys = {36}
  /\ DOMAIN preloadCache.buyTrades = {36}

\* C14: the cache a preload installs holds only entries that preload built,
\* and when its sell section threw it holds the built buy entries and an
\* empty sell map.
C14_Wholesale ==
  [][\A c \in Calls :
       (CompleteStep(c) /\ calls'[c].result = "ok")
       => LET cache == preloadCache'
          IN  /\ \A a \in DOMAIN cache.buyTrades : a \in cache.inputs.okBuys
              /\ \A p \in DOMAIN cache.sellTrades :
                   cache.inputs.sellSide = "built" /\ p \in cache.inputs.okSells
              /\ cache.inputs.sellSide = "failed" =>
                   /\ cache.sellTrades = EmptyMap
                   /\ DOMAIN cache.buyTrades = BuyPresets \cap cache.inputs.okBuys]_vars

\* Two preloads have completed, one caching two buy entries and one caching
\* one; the cache is the latter's, whose sell section threw: it has one buy
\* entry and no sell entry.
C14_Witness ==
  /\ preloadCache # Null
  /\ preloadCache.inputs.sellSide = "failed"
  /\ preloadCache.sellTrades = EmptyMap
  /\ Cardinality(DOMAIN preloadCache.buyTrades) = 1
  /\ \E c, d \in Calls :
       /\ calls[c].kind = "preload" /\ calls[c].pc = "done" /\ calls[c].cached = 2
       /\ calls[d].kind = "preload" /\ calls[d].pc = "done" /\ calls[d].cached = 1

\* C15: the cache a preload installs has sell entries only if the balance it
\* read is not 0, and then exactly for the served percentages p with
\* floor(rawBalance * p / 100) > 0.
C15_SellEntries ==
  [][\A c \in Calls :
       (CompleteStep(c) /\ calls'[c].result = "ok")
       => LET cache == preloadCache'
              raw   == cache.inputs.rawTokenBalance
          IN  /\ cache.tokenBalance = 0 => cache.sellTrades = EmptyMap
              /\ \A p \in DOMAIN cache.sellTrades :
                   /\ cache.tokenBalance > 0
                   /\ p \in SellPresets
                   /\ (raw * p) \div 100 > 0
              /\ cache.inputs.sellSide = "built" =>
                   \A p \in SellPresets \cap cache.inputs.okSells :
                     (raw * p) \div 100 > 0 => p \in DOMAIN cache.sellTrades]_vars

\* With a raw balance of 96 the 1% preset rounds to 0 and is skipped; the
\* 100% preset is cached.
C15_Witness ==
  /\ preloadCache # Null
  /\ preloadCache.inputs.sellSide = "built"
  /\ preloadCache.inputs.okSells = SellPresets
  /\ preloadCache.inputs.rawTokenBalance = 96
  /\ DOMAIN preloadCache.sellTrades = {100}

\* C16: every cached sell entry sells floor(snapshot * p / 100), snapshot
\* being the balance stored in the cache.
C16_SnapshotIsBasis ==
  preloadCache # Null =>
    \A p \in DOMAIN preloadCache.sellTrades :
      preloadCache.sellTrades[p].amount = (preloadCache.tokenBalance * p) \div 100

\* C17: with the clients configured preloadTrades does not throw, whatever
\* builds and whichever read of its sell section fail: it installs a cache.
C17_NoThrowOnPartialFailure ==
  [][\A c \in Calls :
       CompleteStep(c)
       => /\ calls'[c].result = "ok" /\ calls'[c].error = "none"
          /\ preloadCache' # Null /\ preloadCache'.ca = calls[c].ca]_vars

\* A preload has completed although the venue failed for a buy amount and
\* its sell section threw.
C17_Witness ==
  /\ preloadCache # Null
  /\ preloadCache.inputs.sellSide = "failed"
  /\ preloadCache.inputs.okBuys = {56}
  /\ \E c \in Calls :
       calls[c].kind = "preload" /\ calls[c].pc = "done" /\ calls[c].result = "ok"

\* C18: no cache is installed by a preload whose first balance read
\* (getTokenBalance) failed.
C18_BalanceFailureThrows ==
  preloadCache # Null => ~preloadCache.inputs.balanceError

\* C19: a cache that replaces another is not older than it.
C19_CreatedAtMonotone ==
  [][(preloadCache # Null /\ preloadCache' # Null)
       => preloadCache'.timestamp >= preloadCache.timestamp]_vars

\* A refresh of token A started by a tick is in flight and the cache holds
\* B: it replaced the cache the tick found.
C19_Witness ==
  /\ preloadCache # Null /\ preloadCache.ca = "B"
  /\ preloadCache.timestamp >= CACHE_REFRESH_INTERVAL
  /\ \E c \in Calls :
       calls[c].kind = "preload" /\ calls[c].timer /\ calls[c].ca = "A"

\* C20: a preload that met what the preload before it met (the same balance
\* readings, the same venue answers, the same token) installs the cache the
\* other installed, up to the timestamp.
C20_Idempotent ==
  [][\A c \in Calls :
       (/\ CompleteStep(c) /\ calls'[c].result = "ok"
        /\ preloadCache # Null /\ preloadCache' # Null
        /\ preloadCache'.ca = preloadCache.ca
        /\ preloadCache'.tokenBalance = preloadCache.tokenBalance
        /\ preloadCache'.inputs = preloadCache.inputs)
       => [preloadCache' EXCEPT !.timestamp = 0]
            = [preloadCache EXCEPT !.timestamp = 0]]_vars

\* Two preloads of token A have completed with two buy entries each; the
\* later one, at the first refresh time, met the full balance of 100 and a
\* venue that served every preset.
C20_Witness ==
  /\ preloadCache # Null /\ preloadCache.ca = "A"
  /\ preloadCache.timestamp = CACHE_REFRESH_INTERVAL
  /\ preloadCache.tokenBalance = 100
  /\ preloadCache.inputs.rawTokenBalance = 100
  /\ preloadCache.inputs.okBuys = BuyPresets
  /\ preloadCache.inputs.okSells = SellPresets
  /\ DOMAIN preloadCache.sellTrades = SellPresets
  /\ \A c \in Calls :
       calls[c].kind = "preload" /\ calls[c].pc = "done" /\ calls[c].cached = 2

Bundles  == {c \in Calls : calls[c].kind = "bundle"}
Confirms == {c \in Calls : calls[c].kind = "confirm"}

\* C21: sendBundle fetches the bundle endpoint at most `retries` times, and
\* when it stops after a rate-limited answer (HTTP 429 or a rate-limit RPC
\* error) all `retries` attempts are used up and it has returned null: it
\* has not thrown.
C21_BoundedAttempts ==
  \A c \in Bundles :
    /\ calls[c].sends <= calls[c].key
    /\ calls[c].pc # "attempt" /\ isRateLimit(calls[c].last)
         => /\ calls[c].sends = calls[c].key
            /\ calls[c].bundleId = "null"
            /\ calls[c].result # "error"

C21_Witness ==
  \E c \in Bundles :
    /\ calls[c].key = DEFAULT_RETRIES /\ calls[c].sends = DEFAULT_RETRIES
    /\ calls[c].last = "http429" /\ ~calls[c].thenPoll
    /\ calls[c].pc = "done" /\ calls[c].result = "null"

\* C22: once an attempt of sendBundle has failed without a rate limit (a
\* non-429 HTTP error, another RPC error, a network error) the call has
\* thrown: it makes no further attempt and does not return null.
C22_HardErrorNotRetried ==
  \A c \in Bundles :
    calls[c].hard => calls[c].pc = "done" /\ calls[c].result = "error"

\* C23: a submission whose bundle the priority channel refused with the
\* null sentinel ends with the signature the direct channel returned for
\* the same signed transaction.
C23_FallbackToDirect ==
  \A c \in Bundles :
    calls[c].thenPoll /\ calls[c].bundleId = "null" /\ calls[c].pc = "done"
      => calls[c].result = "signature"

\* C24: executeBuy / executeSell report success only after confirmTransaction
\* has queried the status of the signature and found it confirmed.
C24_SuccessIsConfirmed ==
  \A c \in Execs :
    calls[c].pc = "done" /\ calls[c].result = "ok" => calls[c].checkCount > 0

\* C25: confirmTransaction returns the execution failure at the first status
\* that carries an error, whatever its confirmationStatus, and queries no
\* more; it returns confirmed only on a status that is confirmed or
\* finalized and carries no error.
C25_ErrorFirst ==
  \A c \in Confirms :
    /\ calls[c].lastStatus.err
         => calls[c].pc = "done" /\ calls[c].error = "ExecutionFailed"
    /\ calls[c].result = "confirmed"
         => /\ calls[c].lastStatus.confirmationStatus \in {"confirmed", "finalized"}
            /\ ~calls[c].lastStatus.err

C25_Witness ==
  \E c \in Confirms :
    /\ calls[c].lastStatus.err
    /\ calls[c].lastStatus.confirmationStatus = "finalized"
    /\ calls[c].checkCount > 1
    /\ calls[c].pc = "done" /\ calls[c].error = "ExecutionFailed"

\* C26: confirmTransaction reports an execution failure only for a status
\* with an error; it reports one of its two timeout results only when the
\* timeout has elapsed and no status with an error was seen; it returns
\* nothing else but confirmed, and a failed status query never ends it.
C26_TimeoutIsNotFailure ==
  \A c \in Confirms :
    /\ calls[c].error = "ExecutionFailed" => calls[c].lastStatus.err
    /\ calls[c].error \in {"ConfirmTimeout", "Expired"}
         => /\ ~calls[c].lastStatus.err
            /\ now - calls[c].startTime >= calls[c].timeout
    /\ calls[c].pc = "done"
         => \/ calls[c].result = "confirmed" /\ calls[c].error = "none"
            \/ /\ calls[c].result = "notConfirmed"
               /\ calls[c].error \in {"ExecutionFailed", "ConfirmTimeout", "Expired"}

C26_Witness ==
  \E c \in Confirms :
    /\ calls[c].hard /\ calls[c].last = "queryFailed"
    /\ calls[c].lastStatus.known
    /\ calls[c].pc = "done" /\ calls[c].error = "ConfirmTimeout"

\* C27: when the balance read at the head of executeSell answers 0 the call
\* ends there with the NoBalance error: nothing was asked of the venue,
\* nothing signed, nothing sent, and the cache, the timer handle and the
\* interval registry are what they were.
C27_NoBalanceFirst ==
  [][\A c \in Execs :
       (/\ calls[c].kind = "sell" /\ calls[c].pc = "bal"
        /\ calls'[c] # calls[c] /\ calls'[c].error # "BalanceFailed"
        /\ balance[calls[c].ca] = 0)
       => /\ calls'[c].pc = "done" /\ calls'[c].error = "NoBalance"
          /\ calls'[c].quotes = 0 /\ calls'[c].rebuilds = 0
          /\ calls'[c].signs = 0 /\ calls'[c].sends = 0
          /\ UNCHANGED <<preloadCache, cacheRefreshTimer, intervals>>]_vars

\* A sell has failed with NoBalance while a cache with sell entries and its
\* timer are installed.
C27_Witness ==
  \E c \in Execs :
    /\ calls[c].kind = "sell" /\ calls[c].pc = "done"
    /\ calls[c].error = "NoBalance"
    /\ preloadCache # Null /\ preloadCache.ca = "A"
    /\ DOMAIN preloadCache.sellTrades # {}
    /\ cacheRefreshTimer # 0

C30_TakenFromCheckedCache ==
  [][\A c \in Execs :
       calls[c].pc = "cfg" /\ calls'[c].useCache
       => /\ preloadCache # Null
          /\ preloadCache.ca = calls[c].ca
          /\ now - preloadCache.timestamp < CACHE_FRESH_THRESHOLD
          /\ LET entries == IF calls[c].kind = "buy" THEN preloadCache.buyTrades
                            ELSE preloadCache.sellTrades
             IN  /\ calls[c].key \in DOMAIN entries
                 /\ calls'[c].swapTx = entries[calls[c].key]]_vars

\* A call goes on with a cached artifact while a preload for the other
\* token is about to replace the cache.
C30_Witness ==
  \E c \in Execs, d \in Calls :
    /\ calls[c].useCache /\ calls[c].pc = "send" /\ calls[c].rebuilds = 0
    /\ calls[c].swapTx.ca = calls[c].ca
    /\ calls[d].kind = "preload" /\ calls[d].pc # "done"
    /\ calls[d].ca # calls[c].ca
    /\ preloadCache # Null /\ preloadCache.ca = calls[c].ca

\* C28: the raw sell amount a synchronous build of executeSell computes is
\* at most the raw balance it was computed from, and equals it when the
\* percentage is 100.
C28_AmountWithinBalance ==
  \A c \in Execs :
    calls[c].kind = "sell" /\ calls[c].pc = "quote"
      => /\ AtMost(calls[c].swapTx.amount, calls[c].rawTokenBalance)
         /\ calls[c].key = 100
              => calls[c].swapTx.amount = calls[c].rawTokenBalance

\* C31: while an execution message of the panel is not answered yet, the
\* buy and sell buttons are disabled.
C31_DisabledWhileExecuting ==
  panel.executes > 0 => ~panel.enabled

\* C32: an executeBuy that reaches its cache check while the cache is
\* fresh takes the cached artifact although another executeBuy in flight
\* has taken the same artifact and has not rebuilt it, and taking it leaves
\* the cache in place; the cache becomes null only in the step in which a
\* submission of some execution succeeds.
C32_NoMutualExclusion ==
  [][/\ \A c \in Execs, d \in Execs :
          (/\ c # d /\ calls[c].kind = "buy" /\ calls[c].pc = "cfg"
           /\ calls'[c] # calls[c]
           /\ helius /\ enableCache /\ CacheHolds(calls[c])
           /\ now - preloadCache.timestamp < CACHE_FRESH_THRESHOLD
           /\ calls[d].kind = "buy" /\ calls[d].useCache
           /\ calls[d].pc # "done" /\ calls[d].rebuilds = 0
           /\ calls[d].swapTx = CacheEntry(calls[c]))
          => /\ calls'[c].useCache
             /\ calls'[c].swapTx = calls[d].swapTx
             /\ UNCHANGED preloadCache
     /\ preloadCache # Null /\ preloadCache' = Null
          => \E c \in Execs :
               /\ calls[c].pc \in {"send", "resend"}
               /\ calls'[c].pc = "done" /\ calls'[c].result = "ok"]_vars

\* Two executeBuy calls have each sent the same cached artifact, and the
\* cache it came from is still installed.
C32_Witness ==
  \E c \in Execs, d \in Execs :
    /\ c # d
    /\ calls[c].kind = "buy" /\ calls[d].kind = "buy"
    /\ calls[c].ca = calls[d].ca /\ calls[c].key = calls[d].key
    /\ calls[c].useCache /\ calls[d].useCache
    /\ calls[c].pc = "rebuildSend" /\ calls[d].pc = "rebuildSend"
    /\ calls[c].sends = 1 /\ calls[d].sends = 1
    /\ calls[c].swapTx = calls[d].swapTx
    /\ preloadCache # Null
    /\ calls[c].swapTx = preloadCache.buyTrades[calls[c].key]

\* C33: the cached count a preloadTrades request answers with is the number
\* of buy artifacts this call built and installed for its token, and 0 when
\* the call returned without installing anything (caching disabled).
C33_CachedCountIsOwn ==
  [][\A c \in Calls :
       (/\ calls[c].kind = "preload" /\ calls[c].pc # "done"
        /\ calls'[c].pc = "done" /\ calls'[c].result = "ok")
       => IF calls[c].pc = "cfg"
          THEN calls'[c].cached = 0
          ELSE /\ preloadCache'.ca = calls[c].ca
               /\ preloadCache'.timestamp = now
               /\ calls'[c].cached = Cardinality(DOMAIN preloadCache'.buyTrades)
               /\ calls[c].pc = "sell"
                    => preloadCache'.buyTrades = calls[c].buyTrades]_vars

\* C34: whenever an interval is live, and whenever the global handle is
\* set, the cache is not null and holds the token the interval was armed
\* for.
C34_ArmedTimerHasCache ==
  /\ \A i \in ActiveTimers :
       preloadCache # Null /\ preloadCache.ca = intervals[i].ca
  /\ cacheRefreshTimer # 0
       => /\ preloadCache # Null
          /\ intervals[cacheRefreshTimer].active
          /\ intervals[cacheRefreshTimer].ca = preloadCache.ca

\* A timer is armed for the cache a preload installed after an execution
\* had cleared the cache and the timer before it.
C34_Witness ==
  /\ ActiveTimers # {} /\ cacheRefreshTimer # 0
  /\ preloadCache # Null
  /\ \E c \in Execs : calls[c].pc = "done" /\ calls[c].result = "ok"

\* C35: an execution decides for the cache only while caching is enabled,
\* the cache holds the requested token and is younger than both CACHE_TTL
\* and the freshness threshold, and what it takes is the entry under the
\* requested key; the artifact a call that decided for the cache signs and
\* sends before any rebuild is one for its own token, side and key.
C35_OnlyCheckedArtifact ==
  [][\A c \in Execs :
       /\ calls[c].pc = "cfg" /\ calls'[c].useCache
            => /\ enableCache
               /\ CacheHolds(calls[c])
               /\ now - preloadCache.timestamp < CACHE_TTL
               /\ now - preloadCache.timestamp < CACHE_FRESH_THRESHOLD
               /\ calls'[c].swapTx = CacheEntry(calls[c])
       /\ calls'[c].useCache /\ calls'[c].rebuilds = 0 /\ calls'[c].signs > 0
          /\ calls'[c].pc # "done"
            => /\ calls'[c].swapTx.ca = calls'[c].ca
               /\ calls'[c].swapTx.side = calls'[c].kind
               /\ calls'[c].swapTx.key = calls'[c].key]_vars

\* The cached artifact for the second buy preset has been signed and sent.
C35_Witness ==
  \E c \in Execs :
    /\ calls[c].kind = "buy" /\ calls[c].key = 56
    /\ calls[c].useCache /\ calls[c].rebuilds = 0
    /\ calls[c].pc = "rebuildSend" /\ calls[c].sends = 1
    /\ calls[c].swapTx = Artifact("A", "buy", 56, 56)

\* C36: a step in which an execution ends with an error leaves the cache,
\* the armed timer and the registered intervals as they were.
C36_FailureKeepsCache ==
  [][\A c \in Execs :
       calls[c].pc # "done" /\ calls'[c].pc = "done"
       /\ calls'[c].result = "error"
         => UNCHANGED <<preloadCache, cacheRefreshTimer, intervals>>]_vars

\* The resubmission of a rebuilt transaction failed while a cache with an
\* armed timer is installed.
C36_Witness ==
  \E c \in Execs :
    /\ calls[c].pc = "done" /\ calls[c].result = "error"
    /\ calls[c].error = "SendFailed" /\ calls[c].sends = 2
    /\ preloadCache # Null /\ cacheRefreshTimer # 0

\* C37: the sell transaction an executeSell call signs and submits was built
\* for an amount no greater than the raw balance that call read: the read at
\* its head for a cached or first-built transaction, the read of the catch
\* block for a rebuilt one.
C37_SellWithinObservedBalance ==
  [][\A c \in Execs :
       calls[c].kind = "sell"
       /\ calls[c].pc \notin {"send", "resend"}
       /\ calls'[c].pc \in {"send", "resend"}
         => IF calls'[c].rebuilds > calls[c].rebuilds
            THEN calls'[c].swapTx.amount <= balance[calls[c].ca]
            ELSE calls'[c].swapTx.amount <= calls'[c].rawTokenBalance]_vars

Polling(c) == calls[c].kind = "bundle" /\ calls[c].pc \in {"poll", "sleep"}
Terminal   == {"landed", "failed", "timeout"}

C39_PollsOnlyReturnedId ==
  \A c \in Bundles :
    /\ calls[c].checkCount > 0 => calls[c].bundleId = "id"
    /\ calls[c].bundleId = "null" => calls[c].checkCount = 0

\* C40: while the cache option is off, a preloadTrades whose clients are
\* ready ends successfully at its configuration check, before any request
\* to the venue, leaving cache, timer and intervals alone; and an execution
\* that passes its cache check does not take the cached transaction: it
\* goes on to build one (or ends with an error).
C40_DisabledCacheUnused ==
  [][\A c \in Calls :
       calls[c].pc = "cfg" /\ ~enableCache /\ helius /\ calls'[c] # calls[c]
         => /\ calls[c].kind = "preload"
                 => /\ calls'[c].pc = "done" /\ calls'[c].result = "ok"
                    /\ calls'[c].okBuys = {} /\ calls'[c].okSells = {}
                    /\ UNCHANGED <<preloadCache, cacheRefreshTimer, intervals>>
            /\ calls[c].kind \in {"buy", "sell"}
                 => /\ ~calls'[c].useCache
                    /\ calls'[c].pc \in {"build", "done"}
                    /\ calls'[c].signs = 0
                    /\ UNCHANGED <<preloadCache, cacheRefreshTimer, intervals>>]_vars

\* With the option off, a sell builds its transaction although a fresh
\* cache of its token holds one for its percentage.
C40_Witness ==
  \E c \in Execs :
    /\ ~enableCache
    /\ calls[c].kind = "sell" /\ calls[c].pc = "build" /\ ~calls[c].useCache
    /\ preloadCache # Null /\ preloadCache.ca = calls[c].ca
    /\ calls[c].key \in DOMAIN preloadCache.sellTrades
    /\ now - preloadCache.timestamp < CACHE_FRESH_THRESHOLD
    /\ balanceChangeSmall(calls[c].tokenBalance, preloadCache.tokenBalance)

====
